---- MODULE Spec2Model ----
(***************************************************************************)
(* Model of open_musiclm/hf_hubert_kmeans.py: the HfHubertWithKmeans       *)
(* pipeline (constructor and forward), the assembly factory                *)
(* get_hubert_kmeans, and the offline fitting routine learn_kmeans.        *)
(*                                                                         *)
(* Tensors are sequences: a waveform batch of shape (B, L) is a sequence   *)
(* of B rows, each a run-length encoded sequence of L integer samples.  An *)
(* Optional value is the empty tuple (None) or a one-element tuple         *)
(* (Some(v)).  Real-valued results are kept exact as integer numerators    *)
(* over a common denominator.                                              *)
(***************************************************************************)
EXTENDS Integers, Sequences, FiniteSets, TLC

VARIABLES
    fs,       \* the file system: codebook path -> Optional persisted codebook
    rng,      \* state of the process-global numpy random source
    self,     \* Optional pipeline object (HfHubertWithKmeans instance)
    self0,    \* history: the attribute values given to self at construction
    pc,       \* "idle" between calls, "returned" while a result is held
    last,     \* the last call: its arguments, intermediate tensors, outcome
    ref       \* history: the first learn_kmeans run, kept for comparison

vars == <<fs, rng, self, self0, pc, last, ref>>

----------------------------------------------------------------------------
\* Bounds of the model
MaxRuns == 4         \* most runs in one waveform batch, rows times runs a row
SampleValues == {0, 1}
RunLengths == {80, 320, 400}
MaxIter == 2         \* most passes over the corpus (max_iter) in a fit
MaxSteps == 4        \* most mini-batch steps in a fit

\* Program constants
TargetSampleHz == 16000
DefaultEmbedLayer == 7

None == <<>>
Some(v) == <<v>>
Get(opt) == opt[1]

\* utils.exists: applied in forward to a codebook object, an int and an
\* Optional sample rate, hence the is-not-None test.
exists(val) == val # None

RECURSIVE SeqSum(_)
SeqSum(s) == IF s = <<>> THEN 0 ELSE Head(s) + SeqSum(Tail(s))

CeilDiv(a, b) == (a + b - 1) \div b

\* A raised exception / a returned tensor
Raise(e) == [kind |-> "raise", exc |-> e, what |-> "none", shape |-> <<>>, data |-> <<>>]
Return(w, sh, d) == [kind |-> "return", exc |-> "", what |-> w, shape |-> sh, data |-> d]

----------------------------------------------------------------------------
\* Waveform rows, run-length encoded: a row is a sequence of runs <<v, n>>,
\* n > 0 consecutive samples of value v, adjacent runs differing in value.

RowLen(row) == SeqSum([r \in 1..Len(row) |-> row[r][2]])
RowSum(row) == SeqSum([r \in 1..Len(row) |-> row[r][1] * row[r][2]])
RowSumSq(row) == SeqSum([r \in 1..Len(row) |-> row[r][1] * row[r][1] * row[r][2]])

\* the first k samples of a row: row[:k]
RECURSIVE Prefix(_, _)
Prefix(row, k) ==
    IF k = 0 \/ row = <<>> THEN <<>>
    ELSE IF Head(row)[2] <= k
         THEN <<Head(row)>> \o Prefix(Tail(row), k - Head(row)[2])
         ELSE << <<Head(row)[1], k>> >>

IsZero(row) == \A r \in 1..Len(row) : row[r][1] = 0

----------------------------------------------------------------------------
\* Waveform preprocessing (forward, lines 55-65)

\* What the interpolation filter of torchaudio.functional.resample may leave
\* of a row: n samples whose values the model does not compute.  The filter
\* is linear, so a zero row stays zero; any other row, constant or not, may
\* come out constant or not (the filter's edges bend a constant row).
FilteredRows(row, n) ==
    IF n = 0 THEN {<<>>}
    ELSE IF IsZero(row) THEN {<< <<0, n>> >>}
    ELSE {<< <<v, n>> >> : v \in SampleValues}
         \cup (IF n >= 2
               THEN {<< <<p[1], 1>>, <<p[2], n - 1>> >> :
                        p \in {q \in SampleValues \X SampleValues : q[1] # q[2]}}
               ELSE {})

\* the filtered batches: ceil(new * L / orig) samples per row, equal rows
\* filtered alike (no filter is applied between equal rates)
FilterOutputs(wav, orig, new) ==
    IF orig = new THEN {wav} ELSE
    { out \in [1..Len(wav) -> UNION {FilteredRows(wav[b], CeilDiv(new * RowLen(wav[b]), orig)) :
                                        b \in 1..Len(wav)}] :
        /\ \A b \in 1..Len(wav) :
              out[b] \in FilteredRows(wav[b], CeilDiv(new * RowLen(wav[b]), orig))
        /\ \A b, d \in 1..Len(wav) : wav[b] = wav[d] => out[b] = out[d] }

\* a waveform batch handed on / an exception raised in its place
OkWav(wav) == [kind |-> "return", exc |-> "", wav |-> wav]
RaiseWav(e) == [kind |-> "raise", exc |-> e, wav |-> <<>>]

\* torchaudio.functional.resample: the input itself when the two rates are
\* equal; otherwise the batch the interpolation filter yields, but a batch of
\* zero-length rows cannot be laid out for the filter (view(-1, 0)) and
\* raises RuntimeError
resample(wav, orig, new, filtered) ==
    IF orig = new THEN OkWav(wav)
    ELSE IF RowLen(wav[1]) = 0 THEN RaiseWav("RuntimeError")
    ELSE OkWav(filtered)

ResampleStep_always(wav, input_sample_hz, target_sample_hz, filtered) ==
    resample(wav, IF exists(input_sample_hz) THEN Get(input_sample_hz)
                  ELSE 2 * target_sample_hz, target_sample_hz, filtered)

\* lines 55-56
ResampleStep(wav, input_sample_hz, target_sample_hz, filtered) ==
    IF exists(input_sample_hz)
    THEN resample(wav, Get(input_sample_hz), target_sample_hz, filtered)
    ELSE OkWav(wav)

round_down_nearest_multiple(num, divisor) == (num \div divisor) * divisor

\* utils.curtail_to_multiple: t[..., :rounded_len]
curtail_to_multiple(t, mult) ==
    [b \in 1..Len(t) |->
        Prefix(t[b], round_down_nearest_multiple(RowLen(t[b]), mult))]

CurtailStep_skip(wav, seq_len_multiple_of) == wav

\* lines 58-59
CurtailStep(wav, seq_len_multiple_of) ==
    IF exists(seq_len_multiple_of)
    THEN curtail_to_multiple(wav, Get(seq_len_multiple_of))
    ELSE wav

\* Row statistics (line 62).  With n samples x_i of sum S and square sum Q:
\*   x_i - mean = (n*x_i - S) / n,
\*   std^2      = (n*Q - S^2) / (n * (n-1))   (Bessel-corrected),
\* and std is NaN for n <= 1 (0/0), as is the mean for n = 0.
CenteredNum(row) ==
    [r \in 1..Len(row) |-> <<RowLen(row) * row[r][1] - RowSum(row), row[r][2]>>]

\* std of a row, as the pair <<numerator, denominator>> of std^2; a zero
\* denominator is NaN
Std2(row) ==
    <<RowLen(row) * RowSumSq(row) - RowSum(row) * RowSum(row),
      RowLen(row) * (RowLen(row) - 1)>>

IsNaN(s2) == s2[2] = 0

non_zero_std_ge(s2) == ~IsNaN(s2) /\ s2[1] >= 0

\* line 64: std > 0. (a comparison with NaN is false)
non_zero_std(s2) == ~IsNaN(s2) /\ s2[1] > 0

\* line 65, one row: (x - mean) / std.  A quotient by a zero or NaN std is
\* NaN (the numerators are all zero when std = 0, and 0/0 is NaN).
DivideRow(row) ==
    [c |-> CenteredNum(row), den |-> RowLen(row), std2 |-> Std2(row),
     scaled |-> TRUE,
     nan |-> (IsNaN(Std2(row)) \/ Std2(row)[1] = 0) /\ RowLen(row) > 0]

\* line 63, one row: x - mean
CenterRow(row) ==
    [c |-> CenteredNum(row), den |-> RowLen(row), std2 |-> Std2(row),
     scaled |-> FALSE, nan |-> FALSE]

\* lines 62-65: every row mean-centred, the rows selected by the mask divided
Normalize(wav) ==
    [b \in 1..Len(wav) |->
        IF non_zero_std(Std2(wav[b])) THEN DivideRow(wav[b]) ELSE CenterRow(wav[b])]

----------------------------------------------------------------------------
\* The external encoder (HubertModel) as the pipeline uses it, lines 67-73

\* The pretrained encoder handle, with the published configuration of the
\* checkpoint: seven convolutions (one frame per 320 samples, 400 samples for
\* the first frame), then 12 transformer layers of width 768.
Hubert ==
    [name |-> "m-a-p/MERT-v0",
     conv_kernel |-> <<10, 3, 3, 3, 3, 2, 2>>, conv_stride |-> <<5, 2, 2, 2, 2, 2, 2>>,
     num_hidden_layers |-> 12, hidden_size |-> 768]

\* Frames left by the convolution stack on L samples; -1 when a kernel is
\* longer than its input (the convolution raises).
RECURSIVE ConvOut(_, _, _)
ConvOut(L, kernels, strides) ==
    IF kernels = <<>> THEN L
    ELSE IF L < Head(kernels) THEN -1
    ELSE ConvOut((L - Head(kernels)) \div Head(strides) + 1, Tail(kernels), Tail(strides))

\* One frame vector of one hidden layer: an uninterpreted function of the
\* layer, the frame position and the whole (attended) input row.
HiddenFrame(layer, t, row) == [layer |-> layer, frame |-> t, input |-> row]

\* lines 72-73: outputs.hidden_states[self.embed_layer], of shape (B, T, D)
hubert_embed(hubert, input_values, embed_layer) ==
    LET T == ConvOut(input_values[1].den, hubert.conv_kernel, hubert.conv_stride) IN
    IF T < 0 THEN Raise("RuntimeError")
    ELSE IF embed_layer > hubert.num_hidden_layers THEN Raise("IndexError")
    ELSE Return("embed", <<Len(input_values), T, hubert.hidden_size>>,
                [b \in 1..Len(input_values) |->
                    [t \in 1..T |-> HiddenFrame(embed_layer, t, input_values[b])]])

----------------------------------------------------------------------------
\* The external codebook (sklearn MiniBatchKMeans) as the file uses it

\* A centre is a rational vector num / den.
Centre(x) == [num |-> x, den |-> 1]

SqDist(u, v) == SeqSum([d \in 1..Len(u) |-> (u[d] - v[d]) * (u[d] - v[d])])

\* |x - c|^2 * c.den^2
SqNum(c, x) ==
    SeqSum([d \in 1..Len(x) |-> (c.den * x[d] - c.num[d]) * (c.den * x[d] - c.num[d])])

\* x is strictly nearer to centre a than to centre b
Closer(a, b, x) == SqNum(a, x) * b.den * b.den < SqNum(b, x) * a.den * a.den

\* index (from 0) of the nearest centre, the lowest one on a tie
RECURSIVE ArgMin(_, _, _)
ArgMin(centers, x, k) ==
    IF k = 1 THEN 1
    ELSE CHOOSE r \in { IF Closer(centers[k], centers[j], x) THEN k ELSE j :
                         j \in {ArgMin(centers, x, k - 1)} } : TRUE

Nearest(centers, x) == ArgMin(centers, x, Len(centers)) - 1

\* MiniBatchKMeans.predict(X): X is validated as a 2-D (n_samples,
\* n_features) array -- an array of any other rank is rejected with a
\* ValueError -- and one label per sample is returned.
predict(km, shape, data) ==
    IF Len(shape) # 2 THEN Raise("ValueError")
    ELSE IF shape[2] # Len(km.cluster_centers[1].num) THEN Raise("ValueError")
    ELSE Return("labels", <<shape[1]>>,
                [i \in 1..shape[1] |-> Nearest(km.cluster_centers, data[i])])

\* einops rearrange(x, 'b t -> b t 1'), line 85
rearrange_bt1(x) ==
    IF Len(x.shape) # 2 THEN Raise("EinopsError")
    ELSE Return("tokens", x.shape \o <<1>>,
                [b \in 1..x.shape[1] |-> [t \in 1..x.shape[2] |-> <<x.data[b][t]>>]])

----------------------------------------------------------------------------
\* HfHubertWithKmeans

\* __init__, lines 25-41
HfHubertWithKmeans(hubert, kmeans, embed_layer, target_sample_hz, seq_len_multiple_of) ==
    [hubert |-> hubert, kmeans |-> kmeans, embed_layer |-> embed_layer,
     target_sample_hz |-> target_sample_hz, seq_len_multiple_of |-> seq_len_multiple_of]

assert_ok_off(return_embed, kmeans) == TRUE

\* line 51: assert return_embed or exists(self.kmeans)
assert_ok(return_embed, kmeans) == return_embed \/ exists(kmeans)

\* lines 75-85: the embedding itself, or the codebook indices of its frames
\* (None has no predict method)
quantize(slf, embed, flatten, return_embed) ==
    IF return_embed THEN embed
    ELSE IF ~exists(slf.kmeans) THEN Raise("AttributeError")
    ELSE LET codebook_indices == predict(Get(slf.kmeans), embed.shape, embed.data) IN
         IF codebook_indices.kind = "raise" THEN codebook_indices
         ELSE IF flatten
              THEN Return("tokens", codebook_indices.shape, codebook_indices.data)
              ELSE rearrange_bt1(codebook_indices)

\* forward, lines 43-85; filtered is what the resampling filter yields for
\* this input.  The result records the tensors of each step reached and the
\* outcome.
forward(slf, wav_input, flatten, return_embed, input_sample_hz, filtered) ==
    LET resampling == ResampleStep(wav_input, input_sample_hz, slf.target_sample_hz, filtered)
        resampled  == resampling.wav
        curtailed  == CurtailStep(resampled, slf.seq_len_multiple_of)
        normalized == Normalize(curtailed)
        embed      == hubert_embed(slf.hubert, normalized, slf.embed_layer)
        args == [wav_input |-> wav_input, flatten |-> flatten,
                 return_embed |-> return_embed, input_sample_hz |-> input_sample_hz]
    IN  IF ~assert_ok(return_embed, slf.kmeans)
        THEN [op |-> "forward", slf |-> slf, args |-> args, reached |-> "assert",
              resampled |-> <<>>, curtailed |-> <<>>, normalized |-> <<>>,
              embed |-> Raise("AssertionError"), outcome |-> Raise("AssertionError")]
        ELSE IF resampling.kind = "raise"
        THEN [op |-> "forward", slf |-> slf, args |-> args, reached |-> "resample",
              resampled |-> <<>>, curtailed |-> <<>>, normalized |-> <<>>,
              embed |-> Raise(resampling.exc), outcome |-> Raise(resampling.exc)]
        ELSE [op |-> "forward", slf |-> slf, args |-> args,
              reached |-> IF embed.kind = "raise" THEN "hubert" ELSE "quantize",
              resampled |-> resampled, curtailed |-> curtailed,
              normalized |-> normalized, embed |-> embed,
              outcome |-> IF embed.kind = "raise" THEN embed
                          ELSE quantize(slf, embed, flatten, return_embed)]

forward_self_drop(slf) == [slf EXCEPT !.kmeans = None]

\* The attributes of the pipeline object after a forward call: forward
\* assigns no attribute of self and calls no mutating method of the codebook.
forward_self(slf) == slf

----------------------------------------------------------------------------
\* Offline fitting: get_kmeans_model and learn_kmeans

\* get_kmeans_model, lines 88-110: a fresh, unfitted estimator
get_kmeans_model(n_clusters, init, max_iter, batch_size, tol, max_no_improvement, n_init, reassignment_ratio) ==
    [n_clusters |-> n_clusters, init |-> init, max_iter |-> max_iter,
     batch_size |-> batch_size, verbose |-> 1, compute_labels |-> FALSE,
     tol |-> tol, max_no_improvement |-> max_no_improvement,
     init_size |-> None, n_init |-> n_init,
     reassignment_ratio |-> reassignment_ratio,
     random_state |-> None, cluster_centers |-> <<>>, n_steps_ |-> 0]

\* The global random source: its states, and one draw from it.
RngStates == 0..7
Draw(s) == (5 * s + 3) % 8

\* states the source may be in when a fit is first called
PriorStates == {0, 5}

np_random_seed_skip(seed, state) == state

\* line 126: np.random.seed(seed) sets the global state from the seed alone
np_random_seed(seed, state) == seed % 8

\* check_random_state(random_state): the global source when the estimator
\* was given none (lines 98-110 pass none), else a source of its own
check_random_state(random_state, state) ==
    IF exists(random_state)
    THEN [global |-> FALSE, state |-> Get(random_state) % 8]
    ELSE [global |-> TRUE, state |-> state]

RECURSIVE DrawN(_, _)
DrawN(s, n) == IF n = 0 THEN s ELSE DrawN(Draw(s), n - 1)

\* random_state.randint(0, n, count) from state s: count indices below n
RandInt(s, count, n) == [i \in 1..count |-> (DrawN(s, i) * n) \div 8]

Take(X, idx) == [i \in 1..Len(idx) |-> X[idx[i] + 1]]

Min(a, b) == IF a < b THEN a ELSE b

\* exact fractions <<numerator, denominator>> in lowest terms.  (Here and
\* below, CHOOSE v \in {f(x) : x \in {e}} : TRUE is f(e) with e computed
\* once.)
RECURSIVE GCD(_, _)
GCD(a, b) ==
    IF b = 0 THEN a ELSE CHOOSE g \in {GCD(p[1], p[2]) : p \in {<<b, a % b>>}} : TRUE

Frac(n, d) ==
    CHOOSE f \in { <<p[1] \div p[3], p[2] \div p[3]>> :
                   p \in { <<q[1], q[2], GCD(q[1], q[2])>> : q \in {<<n, d>>} } } : TRUE

FracAdd(a, b) ==
    CHOOSE f \in { Frac(p[1][1] * p[2][2] + p[2][1] * p[1][2], p[1][2] * p[2][2]) :
                   p \in {<<a, b>>} } : TRUE

FracMul(a, b) ==
    CHOOSE f \in { Frac(p[1][1] * p[2][1], p[1][2] * p[2][2]) : p \in {<<a, b>>} } : TRUE

FracLess(a, b) == \E p \in {<<a, b>>} : p[1][1] * p[2][2] < p[2][1] * p[1][2]

RECURSIVE FracSum(_)
FracSum(fracs) == IF fracs = <<>> THEN <<0, 1>> ELSE FracAdd(Head(fracs), FracSum(Tail(fracs)))

\* squared distance of x to the nearest centre
PointInertia(centers, x) ==
    CHOOSE f \in { Frac(SqNum(c, x), c.den * c.den) :
                   c \in {centers[Nearest(centers, x) + 1]} } : TRUE

\* sum over X of the squared distance to the nearest centre
Inertia(centers, X) ==
    CHOOSE v \in { FracSum([i \in 1..Len(a[2]) |-> PointInertia(a[1], a[2][i])]) :
                   a \in {<<centers, X>>} } : TRUE

\* k-means++: squared distance of each row to the nearest chosen row
ClosestDistSq(X, chosen) ==
    [i \in 1..Len(X) |->
        LET c == Centre(X[chosen[Nearest([j \in 1..Len(chosen) |-> Centre(X[chosen[j]])], X[i]) + 1]])
        IN SqNum(c, X[i])]

\* the potential left when row cand joins the chosen rows
PotWith(X, closest, cand) ==
    SeqSum([i \in 1..Len(X) |->
               IF SqDist(X[i], X[cand]) < closest[i] THEN SqDist(X[i], X[cand]) ELSE closest[i]])

RECURSIVE CumSum(_, _)
CumSum(w, i) == IF i = 0 THEN 0 ELSE w[i] + CumSum(w, i - 1)

\* the row (from 1) a uniform draw u = (2s+1)/16 picks with probability
\* proportional to closest: searchsorted(cumsum(closest), u * pot), clipped
Sample(closest, s) ==
    LET pot == SeqSum(closest)
        hit == {i \in 1..Len(closest) : 16 * CumSum(closest, i) >= (2 * s + 1) * pot}
    IN  IF hit = {} THEN Len(closest) ELSE CHOOSE i \in hit : \A j \in hit : i <= j

\* the better of the first t candidates drawn after state s (earliest on a tie)
RECURSIVE BestCandidate(_, _, _, _)
BestCandidate(X, closest, s, t) ==
    IF t = 1 THEN Sample(closest, DrawN(s, 1))
    ELSE CHOOSE r \in
            { IF PotWith(X, closest, p[1]) < PotWith(X, closest, p[2]) THEN p[1] ELSE p[2] :
              p \in {<<Sample(closest, DrawN(s, t)), BestCandidate(X, closest, s, t - 1)>>} } : TRUE

\* the least integers above e, e^2, ..., e^21: int(log(k)) is the number of
\* them that k reaches
ExpCeil ==
    << 3, 8, 21, 55, 149, 404, 1097, 2981, 8104, 22027, 59875, 162755, 442414,
       1202605, 3269018, 8886111, 24154953, 65659970, 178482301, 485165196,
       1318815735 >>

\* n_local_trials = 2 + int(log(n_clusters))
LocalTrials(n_clusters) ==
    2 + Cardinality({j \in 1..Len(ExpCeil) : ExpCeil[j] <= n_clusters})

\* the row k-means++ adds to the chosen ones, drawing after state s
NextCentre(X, n_clusters, chosen, s) ==
    CHOOSE r \in { BestCandidate(X, closest, s, LocalTrials(n_clusters)) :
                   closest \in {ClosestDistSq(X, chosen)} } : TRUE

\* k-means++ from state s: the first row by one uniform draw, every further
\* row the best of LocalTrials candidates drawn with probability proportional
\* to the squared distance to the rows chosen so far.  The chosen rows (from
\* 1), k of them.
RECURSIVE KMeansPlusPlus(_, _, _, _)
KMeansPlusPlus(X, n_clusters, s, k) ==
    IF k = 1 THEN <<RandInt(s, 1, Len(X))[1] + 1>>
    ELSE CHOOSE r \in
            { Append(chosen, NextCentre(X, n_clusters, chosen,
                                        DrawN(s, 1 + (k - 2) * LocalTrials(n_clusters)))) :
              chosen \in {KMeansPlusPlus(X, n_clusters, s, k - 1)} } : TRUE

\* _check_params_vs_input: the batch size and the size of the initialisation
\* and validation samples the fit works with
BatchSize(km, n) == Min(km.batch_size, n)

InitSize(km, n) ==
    Min(IF 3 * BatchSize(km, n) < km.n_clusters THEN 3 * km.n_clusters
        ELSE 3 * BatchSize(km, n), n)

\* n_steps = (max_iter * n_samples) // batch_size
NSteps(km, n) == (km.max_iter * n) \div BatchSize(km, n)

\* draws one initialisation makes: the subsample when init_size is below the
\* corpus size, then k-means++
InitDraws(n, init_size, n_clusters) ==
    (IF init_size < n THEN init_size ELSE 0) + 1 + (n_clusters - 1) * LocalTrials(n_clusters)

\* _init_centroids with init="k-means++": the initial centres of one attempt
\* from state s, chosen among init_size rows drawn from the corpus when
\* init_size is below the corpus size, else among all rows
InitCenters(feat, n_clusters, init_size, s) ==
    CHOOSE r \in
        { [k \in 1..n_clusters |-> Centre(p[1][p[2][k]])] :
          p \in { <<X, KMeansPlusPlus(X, n_clusters,
                                      IF init_size < Len(feat) THEN DrawN(s, init_size) ELSE s,
                                      n_clusters)>> :
                  X \in { IF init_size < Len(feat)
                          THEN Take(feat, RandInt(s, init_size, Len(feat))) ELSE feat } } } : TRUE

\* the best of the first j attempts from state s, by inertia on the
\* validation sample (the earliest on a tie)
RECURSIVE BestInit(_, _, _, _, _, _)
BestInit(feat, X_valid, n_clusters, init_size, s, j) ==
    IF j = 1 THEN InitCenters(feat, n_clusters, init_size, s)
    ELSE CHOOSE r \in
            { IF FracLess(Inertia(p[1], X_valid), Inertia(p[2], X_valid)) THEN p[1] ELSE p[2] :
              p \in { << InitCenters(feat, n_clusters, init_size,
                                     DrawN(s, (j - 1) * InitDraws(Len(feat), init_size, n_clusters))),
                         BestInit(feat, X_valid, n_clusters, init_size, s, j - 1) >> } } : TRUE

\* _mini_batch_step with reassignment_ratio = 0: the inertia of the batch on
\* the centres as they are, then each centre that is nearest to some row of
\* the batch becomes the mean of all rows assigned to it so far (its own
\* starting position has weight 0)
MiniBatchStep(batch, centers, weight_sums) ==
    LET labels == [i \in 1..Len(batch) |-> Nearest(centers, batch[i])]
        cnt(c) == Cardinality({i \in 1..Len(batch) : labels[i] = c - 1})
        sum(c, d) == SeqSum([i \in 1..Len(batch) |-> IF labels[i] = c - 1 THEN batch[i][d] ELSE 0])
    IN  [centers |->
            [c \in 1..Len(centers) |->
                IF cnt(c) = 0 THEN centers[c]
                ELSE [num |-> [d \in 1..Len(centers[c].num) |->
                                (IF weight_sums[c] = 0 THEN 0 ELSE centers[c].num[d]) + sum(c, d)],
                      den |-> weight_sums[c] + cnt(c)]],
         weight_sums |-> [c \in 1..Len(centers) |-> weight_sums[c] + cnt(c)],
         inertia |-> Inertia(centers, batch)]

\* _mini_batch_convergence with tol = 0, after step number `step` (from 1):
\* the first step is ignored; from the second on the batch inertia per row
\* enters the exponentially weighted average, and the fit stops once the
\* average has failed to reach a new minimum max_no_improvement times running
MiniBatchConvergence(mon, step, n, batch_size, max_no_improvement, batch_inertia) ==
    LET per_row == FracMul(batch_inertia, <<1, batch_size>>)
        alpha   == IF 2 * batch_size >= n + 1 THEN <<1, 1>> ELSE Frac(2 * batch_size, n + 1)
        ewa     == IF ~exists(mon.ewa_inertia) THEN per_row
                   ELSE FracAdd(FracMul(Get(mon.ewa_inertia), <<alpha[2] - alpha[1], alpha[2]>>),
                                FracMul(per_row, alpha))
        better  == ~exists(mon.ewa_inertia_min) \/ FracLess(ewa, Get(mon.ewa_inertia_min))
        no_imp  == IF better THEN 0 ELSE mon.no_improvement + 1
    IN  IF step = 1 THEN [mon |-> mon, stop |-> FALSE]
        ELSE [mon |-> [ewa_inertia |-> Some(ewa),
                       ewa_inertia_min |-> IF better THEN Some(ewa) ELSE mon.ewa_inertia_min,
                       no_improvement |-> no_imp],
              stop |-> no_imp >= max_no_improvement]

\* the loop state after step i (from 0), and whether the loop ends there
MiniBatchAdvance(run, i, batch_size, upd, conv) ==
    [run |-> [centers |-> upd.centers, weight_sums |-> upd.weight_sums,
              mon |-> conv.mon, state |-> DrawN(run.state, batch_size),
              n_steps_ |-> i + 1],
     stop |-> conv.stop]

\* one iteration of the loop, step i (from 0): draws a batch of batch_size
\* rows, updates the centres and tells whether the loop ends here
MiniBatchIteration(feat, batch_size, max_no_improvement, run, i) ==
    CHOOSE r \in
        { MiniBatchAdvance(p[1], i, batch_size, p[2],
                           MiniBatchConvergence(p[1].mon, i + 1, Len(feat), batch_size,
                                                max_no_improvement, p[2].inertia)) :
          p \in { <<rv, MiniBatchStep(Take(feat, RandInt(rv.state, batch_size, Len(feat))),
                                      rv.centers, rv.weight_sums)>> : rv \in {run} } } : TRUE

\* the mini-batch iterations from step i (from 0) on
RECURSIVE MiniBatchSteps(_, _, _, _, _, _)
MiniBatchSteps(feat, batch_size, max_no_improvement, run, i, n_steps) ==
    IF i = n_steps THEN run
    ELSE CHOOSE out \in
            { IF it.stop THEN it.run
              ELSE MiniBatchSteps(feat, batch_size, max_no_improvement, it.run, i + 1, n_steps) :
              it \in {MiniBatchIteration(feat, batch_size, max_no_improvement, run, i)} } : TRUE

\* how the fit ends once the loop is over: with compute_labels=False it reads
\* the averaged inertia, which is still unset when only one step was run
FitEnd(km, state, rs, run) ==
    [kind  |-> IF exists(run.mon.ewa_inertia) THEN "return" ELSE "raise",
     exc   |-> IF exists(run.mon.ewa_inertia) THEN "" ELSE "TypeError",
     km    |-> [km EXCEPT !.cluster_centers = run.centers, !.n_steps_ = run.n_steps_],
     state |-> IF rs.global THEN run.state ELSE state]

\* MiniBatchKMeans.fit(feat) for init="k-means++", tol=0 and
\* reassignment_ratio=0, as learn_kmeans passes them by default.  A corpus
\* with fewer rows than clusters is rejected before anything is drawn.  The
\* draws, in order: the validation sample, the n_init initialisations, then
\* one batch per step.  With compute_labels=False the fit ends by reading the
\* averaged inertia, which is still unset when only one step was run:
\* TypeError, after the centres were stored.  The state handed back is the
\* global one: advanced when the estimator drew from it.
fit(km, feat, state) ==
    LET n          == Len(feat)
        batch_size == BatchSize(km, n)
        init_size  == InitSize(km, n)
        rs         == check_random_state(km.random_state, state)
        X_valid    == Take(feat, RandInt(rs.state, init_size, n))
        s1         == DrawN(rs.state, init_size)
        s2         == DrawN(s1, km.n_init * InitDraws(n, init_size, km.n_clusters))
    IN  IF n < km.n_clusters
        THEN [kind |-> "raise", exc |-> "ValueError", km |-> km, state |-> state]
        ELSE CHOOSE r \in
                { FitEnd(km, state, rs, run) :
                  run \in { MiniBatchSteps(feat, batch_size, km.max_no_improvement,
                               [centers |-> BestInit(feat, X_valid, km.n_clusters, init_size,
                                                     s1, km.n_init),
                                weight_sums |-> [c \in 1..km.n_clusters |-> 0],
                                mon |-> [ewa_inertia |-> None, ewa_inertia_min |-> None,
                                         no_improvement |-> 0],
                                state |-> s2, n_steps_ |-> 0],
                               0, NSteps(km, n)) } } : TRUE

\* os.path.dirname of the paths used
dirname(path) ==
    CASE path = "./results/kmeans.joblib" -> "./results"
      [] path = "./checkpoints/kmeans.joblib" -> "./checkpoints"
      [] path = "./exports/kmeans.joblib" -> "./exports"

\* the directories there are; nothing in the code creates one
Directories == {"./results", "./checkpoints"}

\* line 138: joblib.dump(km_model, km_path) opens km_path for writing, which
\* fails when its directory is not there
joblib_dump(files, km, path) ==
    IF dirname(path) \in Directories
    THEN [kind |-> "return", exc |-> "", files |-> [files EXCEPT ![path] = Some(km)]]
    ELSE [kind |-> "raise", exc |-> "FileNotFoundError", files |-> files]

\* lines 138-142, after a fit that ended as `fitted`: dump, score, report
dump_and_score(feat, km_path, files, fitted) ==
    LET dumped == joblib_dump(files, fitted.km, km_path) IN
    IF fitted.kind = "raise"
    THEN [kind |-> "raise", exc |-> fitted.exc, fit |-> fitted.kind, km |-> fitted.km,
          state |-> fitted.state, files |-> files, inertia |-> None]
    ELSE IF dumped.kind = "raise"
    THEN [kind |-> "raise", exc |-> dumped.exc, fit |-> fitted.kind, km |-> fitted.km,
          state |-> fitted.state, files |-> files, inertia |-> None]
    ELSE [kind |-> "return", exc |-> "", fit |-> fitted.kind, km |-> fitted.km,
          state |-> fitted.state, files |-> dumped.files,
          inertia |-> Some(FracMul(Inertia(fitted.km.cluster_centers, feat),
                                   <<1, Len(feat)>>))]

\* learn_kmeans, lines 113-142, with init, tol and reassignment_ratio at
\* their defaults, from global state `state` and files `files`: the outcome,
\* the estimator as the fit left it, the state and the files left behind and
\* the reported inertia -score(feat) / len(feat).
learn_kmeans(feat, seed, km_path, n_clusters, max_iter, batch_size, n_init, max_no_improvement, state, files) ==
    CHOOSE r \in
        { dump_and_score(feat, km_path, files, fitted) :
          fitted \in { fit(get_kmeans_model(n_clusters, "k-means++", max_iter, batch_size, 0,
                                            max_no_improvement, n_init, 0),
                           feat, np_random_seed(seed, state)) } } : TRUE

----------------------------------------------------------------------------
\* Assembly factory: get_hubert_kmeans, lines 145-149

DefaultSeqLenMultiple == 16000 \div 50

load_kmeans_lenient(files, kmeans_path) ==
    [kind |-> "return", exc |-> "",
     kmeans |-> IF exists(kmeans_path) THEN files[Get(kmeans_path)] ELSE None]

\* line 147: joblib.load(kmeans_path) if exists(kmeans_path) else None.
\* joblib.load of a path that names no file raises FileNotFoundError.
load_kmeans(files, kmeans_path) ==
    IF exists(kmeans_path)
    THEN IF exists(files[Get(kmeans_path)])
         THEN [kind |-> "return", exc |-> "", kmeans |-> files[Get(kmeans_path)]]
         ELSE [kind |-> "raise", exc |-> "FileNotFoundError", kmeans |-> None]
    ELSE [kind |-> "return", exc |-> "", kmeans |-> None]

get_hubert_kmeans(files, kmeans_path) ==
    LET wav2vec == Hubert
        loaded  == load_kmeans(files, kmeans_path)
    IN  IF loaded.kind = "raise"
        THEN [kind |-> "raise", exc |-> loaded.exc, pipeline |-> None]
        ELSE [kind |-> "return", exc |-> "",
              pipeline |-> Some(HfHubertWithKmeans(wav2vec, loaded.kmeans, DefaultEmbedLayer,
                                                   TargetSampleHz, Some(DefaultSeqLenMultiple)))]

----------------------------------------------------------------------------
\* The state machine

KmPaths == {"./results/kmeans.joblib", "./checkpoints/kmeans.joblib"}

\* a two-centroid codebook fitted on embeddings of the encoder's width
CodebookA ==
    [get_kmeans_model(2, "k-means++", 100, 10000, 0, 100, 20, 0)
        EXCEPT !.cluster_centers = << Centre([d \in 1..Hubert.hidden_size |-> 0]),
                                      Centre([d \in 1..Hubert.hidden_size |-> 2]) >>]

\* the rows of exactly k runs
RowsOf(k) ==
    { row \in [1..k -> SampleValues \X RunLengths] :
        \A r \in 1..(k - 1) : row[r][1] # row[r + 1][1] }

\* the waveform batches of B rows of equal length, at most k runs a row
Batches(B, k) ==
    { wav \in [1..B -> UNION {RowsOf(j) : j \in 0..k}] :
        \A b \in 1..B : RowLen(wav[b]) = RowLen(wav[1]) }

\* embedding corpora of shape (N, 1)
CorpusA == << <<0>>, <<2>>, <<4>>, <<7>> >>
CorpusB == << <<3>> >>
Seeds == {0, 1}

\* learn_kmeans calls: one near the defaults, and that call with another
\* corpus, output path, cluster count, batch size or patience
BaseCall ==
    [feat |-> CorpusA, km_path |-> "./results/kmeans.joblib", n_clusters |-> 2,
     batch_size |-> 10000, n_init |-> 2, max_no_improvement |-> 100]

FitCalls ==
    { BaseCall,
      [BaseCall EXCEPT !.feat = CorpusB],
      [BaseCall EXCEPT !.km_path = "./exports/kmeans.joblib"],
      [BaseCall EXCEPT !.n_clusters = 1],
      [BaseCall EXCEPT !.batch_size = 1],
      [BaseCall EXCEPT !.batch_size = 1, !.max_no_improvement = 1] }

NoCall == [op |-> "none"]

NoFiles == [p \in KmPaths |-> None]

\* A process that serves inference: one of the two codebook files is there.
Init ==
    /\ fs = [NoFiles EXCEPT !["./checkpoints/kmeans.joblib"] = Some(CodebookA)]
    /\ rng = 0
    /\ self = None /\ self0 = None
    /\ pc = "idle" /\ last = NoCall /\ ref = None

\* A process that fits codebooks: the random source is in any state.
InitFit ==
    /\ fs = NoFiles
    /\ rng \in PriorStates
    /\ self = None /\ self0 = None
    /\ pc = "idle" /\ last = NoCall /\ ref = None

\* HfHubertWithKmeans(hubert=..., kmeans=..., seq_len_multiple_of=...)
New ==
    /\ pc = "idle"
    /\ \E kmeans \in {None, Some(CodebookA)}, m \in {None, Some(DefaultSeqLenMultiple)} :
          /\ self' = Some(HfHubertWithKmeans(Hubert, kmeans, DefaultEmbedLayer, TargetSampleHz, m))
          /\ self0' = self'
    /\ UNCHANGED <<fs, rng, pc, last, ref>>

\* pipeline = get_hubert_kmeans(kmeans_path=...)
GetHubertKmeans ==
    /\ pc = "idle"
    /\ \E kmeans_path \in {None} \cup {Some(p) : p \in KmPaths} :
          LET r == get_hubert_kmeans(fs, kmeans_path) IN
          /\ last' = [op |-> "get_hubert_kmeans", kmeans_path |-> kmeans_path,
                      kind |-> r.kind, exc |-> r.exc, pipeline |-> r.pipeline]
          /\ self' = IF r.kind = "return" THEN r.pipeline ELSE self
          /\ self0' = self'
    /\ pc' = "returned"
    /\ UNCHANGED <<fs, rng, ref>>

\* self(wav_input, flatten=..., return_embed=..., input_sample_hz=...)
Forward ==
    /\ pc = "idle"
    /\ exists(self)
    /\ \E B \in 1..MaxRuns :
       \E wav_input \in Batches(B, MaxRuns \div B) :
       \E flatten \in BOOLEAN, return_embed \in BOOLEAN :
       \E input_sample_hz \in {None, Some(TargetSampleHz), Some(2 * TargetSampleHz)} :
       \E filtered \in FilterOutputs(wav_input,
                                     IF exists(input_sample_hz) THEN Get(input_sample_hz)
                                     ELSE 2 * TargetSampleHz,
                                     Get(self).target_sample_hz) :
          /\ last' = forward(Get(self), wav_input, flatten, return_embed, input_sample_hz, filtered)
          /\ self' = Some(forward_self(Get(self)))
    /\ pc' = "returned"
    /\ UNCHANGED <<fs, rng, self0, ref>>

\* learn_kmeans(feat, seed, km_path, n_clusters=..., max_iter=..., ...)
LearnKmeans ==
    /\ pc = "idle"
    /\ \E c \in FitCalls, seed \in Seeds, max_iter \in 1..MaxIter :
          /\ (max_iter * Len(c.feat)) \div Min(c.batch_size, Len(c.feat)) <= MaxSteps
          /\ \E r \in {learn_kmeans(c.feat, seed, c.km_path, c.n_clusters, max_iter,
                                    c.batch_size, c.n_init, c.max_no_improvement, rng, fs)} :
                /\ last' = [op |-> "learn_kmeans",
                            key |-> <<c.feat, seed, c.n_clusters, max_iter, c.batch_size,
                                      c.n_init, c.max_no_improvement>>,
                            km_path |-> c.km_path, state_before |-> rng,
                            kind |-> r.kind, exc |-> r.exc, fit |-> r.fit,
                            cluster_centers |-> r.km.cluster_centers,
                            n_steps_ |-> r.km.n_steps_,
                            state_after |-> r.state, inertia |-> r.inertia,
                            written |-> IF r.kind = "return" THEN r.files[c.km_path] ELSE None]
                /\ rng' = r.state
                /\ fs' = r.files
                /\ ref' = IF exists(ref) THEN ref ELSE Some(last')
    /\ pc' = "returned"
    /\ UNCHANGED <<self, self0>>

\* the caller drops the result of the call (results are not retained)
Discard ==
    /\ pc = "returned"
    /\ pc' = "idle"
    /\ last' = NoCall
    /\ UNCHANGED <<fs, rng, self, self0, ref>>

Next == New \/ GetHubertKmeans \/ Forward \/ Discard

Spec == Init /\ [][Next]_vars

NextFit == LearnKmeans \/ Discard

SpecFit == InitFit /\ [][NextFit]_vars

----------------------------------------------------------------------------
\* Properties

IsForward == last.op = "forward"
PastAssert == IsForward /\ last.reached # "assert"
Preprocessed == IsForward /\ last.reached \in {"hubert", "quantize"}
Encoded == Preprocessed /\ last.embed.kind = "return"
Quantizing == Encoded /\ ~last.args.return_embed /\ exists(last.slf.kmeans)

\* C1: a forward call on a pipeline without a codebook raises the assertion
\* error and returns nothing when return_embed is false, and does not raise
\* that error when return_embed is true.
C1_AssertWithoutCodebook ==
    (IsForward /\ ~exists(last.slf.kmeans)) =>
        IF last.args.return_embed
        THEN last.outcome.exc # "AssertionError"
        ELSE last.outcome.kind = "raise" /\ last.outcome.exc = "AssertionError"

C1_Witness ==
    /\ IsForward /\ ~exists(last.slf.kmeans) /\ ~last.args.return_embed
    /\ RowLen(last.args.wav_input[1]) >= 400
    /\ last.outcome.exc = "AssertionError"

FileMissing(path) == exists(path) /\ ~exists(fs[Get(path)])

\* C2 (as claimed): a factory call whose path is given but names no file
\* returns a pipeline with an absent codebook.
C2_MissingFileTolerated ==
    (last.op = "get_hubert_kmeans" /\ FileMissing(last.kmeans_path)) =>
        /\ last.kind = "return"
        /\ exists(last.pipeline)
        /\ ~exists(Get(last.pipeline).kmeans)

\* C2 (amended): the codebook is deserialized whenever the path is given; a
\* given path that names no file makes the factory fail with the loader's
\* FileNotFoundError and return no pipeline; the pipeline's codebook is
\* absent only when the path is None.
C2_MissingFileRaises ==
    (last.op = "get_hubert_kmeans") =>
        IF FileMissing(last.kmeans_path)
        THEN last.kind = "raise" /\ last.exc = "FileNotFoundError" /\ ~exists(last.pipeline)
        ELSE /\ last.kind = "return" /\ exists(last.pipeline)
             /\ Get(last.pipeline).kmeans =
                    IF exists(last.kmeans_path) THEN fs[Get(last.kmeans_path)] ELSE None

C2_Witness ==
    /\ last.op = "get_hubert_kmeans"
    /\ FileMissing(last.kmeans_path)
    /\ last.kind = "raise"

\* C3: a forward call with return_embed=false whose embedding has shape
\* (B, T, D) returns a token tensor with one id per frame per batch element:
\* shape (B, T) when flattened, (B, T, 1) otherwise.
C3_OneTokenPerFrame ==
    Quantizing =>
        /\ last.outcome.kind = "return"
        /\ last.outcome.what = "tokens"
        /\ last.outcome.shape =
              IF last.args.flatten
              THEN <<last.embed.shape[1], last.embed.shape[2]>>
              ELSE <<last.embed.shape[1], last.embed.shape[2], 1>>

\* the ids held by a token tensor of shape (B, T) or (B, T, 1)
TokenIds(tok) ==
    { IF Len(tok.shape) = 2 THEN tok.data[b][t] ELSE tok.data[b][t][1] :
        b \in 1..tok.shape[1], t \in 1..tok.shape[2] }

\* C4: with a codebook of K centroids, a forward call with return_embed=false
\* yields token ids that all lie in 0..K-1, for either value of flatten.
C4_TokenIdsInRange ==
    Quantizing =>
        /\ last.outcome.kind = "return"
        /\ TokenIds(last.outcome) \subseteq 0..(Len(Get(last.slf.kmeans).cluster_centers) - 1)

\* out holds the first samples of src, in order (run by run: the runs of
\* out are those of src, the last one possibly cut short)
IsPrefix(out, src) ==
    /\ Len(out) <= Len(src)
    /\ \A r \in 1..Len(out) :
          /\ out[r][1] = src[r][1]
          /\ out[r][2] <= src[r][2]
          /\ r < Len(out) => out[r][2] = src[r][2]

\* C5: with a frame-alignment constant m configured, the waveform handed on
\* after curtailing is the first m * floor(L / m) samples of the (resampled)
\* waveform of length L, in order: no sample is added and fewer than m are
\* dropped.
C5_CurtailToMultiple ==
    (Preprocessed /\ exists(last.slf.seq_len_multiple_of)) =>
        \A b \in 1..Len(last.resampled) :
            LET m   == Get(last.slf.seq_len_multiple_of)
                src == last.resampled[b]
                out == last.curtailed[b]
            IN  /\ RowLen(out) % m = 0
                /\ RowLen(src) - RowLen(out) < m
                /\ IsPrefix(out, src)

C5_Witness ==
    /\ Preprocessed /\ exists(last.slf.seq_len_multiple_of)
    /\ exists(last.args.input_sample_hz)
    /\ last.resampled # last.args.wav_input
    /\ RowLen(last.resampled[1]) % Get(last.slf.seq_len_multiple_of) # 0
    /\ RowLen(last.curtailed[1]) > 0
    /\ Len(last.resampled[1]) = 2

\* a row of one value throughout
Constant(row) == Len(row) <= 1

\* C6: a row whose standard deviation, taken on line 62 of the resampled and
\* curtailed waveform, is exactly zero (a constant row of two or more
\* samples) comes out all zero and undivided; only rows with a strictly
\* positive standard deviation are divided, and no row holds a NaN.
C6_ZeroStdNotDivided ==
    Preprocessed =>
        \A b \in 1..Len(last.curtailed) :
            LET row == last.curtailed[b]
                out == last.normalized[b]
            IN  /\ ~out.nan
                /\ out.scaled => (RowLen(row) >= 2 /\ ~Constant(row))
                /\ (RowLen(row) >= 2 /\ Constant(row)) =>
                      (~out.scaled /\ \A r \in 1..Len(out.c) : out.c[r][1] = 0)

C6_Witness ==
    /\ Preprocessed /\ Len(last.curtailed) = 2
    /\ RowLen(last.curtailed[1]) >= 2
    /\ Constant(last.curtailed[1]) /\ last.curtailed[1][1][1] # 0
    /\ ~Constant(last.curtailed[2])
    /\ ~last.normalized[1].scaled /\ last.normalized[2].scaled

\* C7: the unflattened result of a forward call has one more dimension than
\* the flattened result for the same pipeline and batch, that dimension is
\* the last and has size 1, and dropping it gives the flattened token values.
C7_UnflattenedAddsTrailingAxis ==
    (Quantizing /\ ~last.args.flatten) =>
        LET flat == forward(last.slf, last.args.wav_input, TRUE, FALSE,
                            last.args.input_sample_hz, last.resampled).outcome
            unfl == last.outcome
        IN  /\ flat.kind = "return" /\ unfl.kind = "return"
            /\ unfl.shape = flat.shape \o <<1>>
            /\ \A b \in 1..flat.shape[1], t \in 1..flat.shape[2] :
                  unfl.data[b][t] = <<flat.data[b][t]>>

\* C8: two learn_kmeans runs on the same corpus with the same seed and
\* hyperparameters fit alike, whatever state the global random source was in
\* before each of them: the fit ends the same way, leaves the same centroids
\* after the same number of steps and leaves the global source in the same
\* state; when they also write to the same path, they end alike, write the
\* same codebook and report the same inertia.
C8_FitDeterministic ==
    (last.op = "learn_kmeans" /\ exists(ref) /\ Get(ref).key = last.key) =>
        /\ Get(ref).fit = last.fit
        /\ Get(ref).cluster_centers = last.cluster_centers
        /\ Get(ref).n_steps_ = last.n_steps_
        /\ Get(ref).state_after = last.state_after
        /\ (Get(ref).km_path = last.km_path) =>
              /\ Get(ref).kind = last.kind /\ Get(ref).exc = last.exc
              /\ Get(ref).written = last.written
              /\ Get(ref).inertia = last.inertia

C8_Witness ==
    /\ last.op = "learn_kmeans" /\ exists(ref)
    /\ Get(ref).key = last.key
    /\ Get(ref).state_before # last.state_before
    /\ last.kind = "return"
    /\ Len(last.cluster_centers) = 2
    /\ exists(last.written)
    /\ Get(last.written).cluster_centers = Get(ref).cluster_centers

\* C9 (as claimed): a forward call without an input sample rate fails.
C9_UnspecifiedRateFails ==
    (IsForward /\ ~exists(last.args.input_sample_hz)) => last.outcome.kind = "raise"

\* C9 (amended): a forward call without an input sample rate does not fail on
\* that account: it skips resampling, takes the waveform as already being at
\* the target rate and goes on to curtail, normalize and encode it.
C9_UnspecifiedRatePassesThrough ==
    (PastAssert /\ ~exists(last.args.input_sample_hz)) =>
        /\ last.resampled = last.args.wav_input
        /\ last.reached \in {"hubert", "quantize"}

C9_Witness ==
    /\ PastAssert /\ ~exists(last.args.input_sample_hz)
    /\ RowLen(last.args.wav_input[1]) >= 400
    /\ last.outcome.kind = "return" /\ last.outcome.what = "embed"

\* C10: the pipeline's encoder handle, codebook (and its centroids), embed
\* layer, target sample rate and frame-alignment constant are, after any
\* number of forward calls, those set at construction.
C10_ForwardReadsOnly == self = self0

C10_Witness ==
    /\ IsForward /\ last.outcome.kind = "raise" /\ last.outcome.exc = "ValueError"
    /\ exists(self) /\ self = self0
    /\ Get(self).kmeans = Some(CodebookA)

====
